---- MODULE Spec2Model ----
(***************************************************************************)
(* EHR insurance verification gateway (server.js).                         *)
(*                                                                         *)
(* JavaScript values are represented as follows.                           *)
(*   - an object is a record holding exactly the properties that are       *)
(*     present and defined; a property that is undefined is left out (as   *)
(*     JSON serialisation of a response leaves it out);                    *)
(*   - an array is a sequence; null is the record Null;                    *)
(*   - a thrown Error is carried as [threw |-> TRUE, error |-> message],   *)
(*     a normal return as [threw |-> FALSE, value |-> v];                  *)
(*   - an error message is the tuple of the parts of its template.         *)
(***************************************************************************)
EXTENDS Integers, Sequences, FiniteSets, TLC

VARIABLES
    endpoint,     \* the route handling the current request, "none" before any
    pc,           \* position of the handler: idle, await*, done
                  \* (one request per behaviour: handlers share no mutable
                  \* state, mockPayers is never written)
    body,         \* req.body / req.params of the current request
    idx,          \* verify-batch: 1-based position of the for..of loop
    patient,      \* handler local `patient` (raw resource), Null when unset
    patientInfo,  \* handler local `patientInfo`, Null when unset
    coverageInfo, \* handler local `coverageInfo`, Null when unset or null
    results,      \* verify-batch: the `results` array
    response,     \* what res.status(..).json(..) sent: [status, json]
    outstanding,  \* remote operations issued and not yet completed
    log,          \* the request's remote-operation events, in order
    fnIn,         \* input of the pure function under evaluation
    fnOut         \* its result, NotRun before evaluation

vars == <<endpoint, pc, body, idx, patient, patientInfo, coverageInfo,
          results, response, outstanding, log, fnIn, fnOut>>

reqVars == <<endpoint, pc, body, idx, patient, patientInfo, coverageInfo,
             results, response, outstanding, log>>

fnVars == <<fnIn, fnOut>>

-----------------------------------------------------------------------------
(* Bounds *)

MaxBatch == 2        \* longest patientIds array of a batch request
MaxEntries == 2      \* longest entry list of a coverage bundle

-----------------------------------------------------------------------------
(* Values *)

Null == [null |-> TRUE]

NotRun == [notRun |-> TRUE]

NoResponse == [sent |-> FALSE]

Return(v) == [threw |-> FALSE, value |-> v]

Throw(msg) == [threw |-> TRUE, error |-> msg]

PatientIds == {"p1", "missing-id"}

\* the instants new Date() may read
NowValues == {"2024-06-01T12:00:00.000Z"}

-----------------------------------------------------------------------------
(* InsuranceVerificationService *)

mockPayers ==
    [BCBS001  |-> [name |-> "Blue Cross Blue Shield", active |-> TRUE,
                   verificationEndpoint |-> "mock"],
     AETNA001 |-> [name |-> "Aetna", active |-> TRUE,
                   verificationEndpoint |-> "mock"],
     UHC001   |-> [name |-> "United Healthcare", active |-> TRUE,
                   verificationEndpoint |-> "mock"]]

\* mockPayers is an object literal, so a property read that misses the own
\* keys continues into Object.prototype.  Its function-valued members carry
\* their own `name`; "__proto__" reads the prototype object, which has none.
ObjectPrototypeMembers ==
    [constructor    |-> [name |-> "Object"],
     toString       |-> [name |-> "toString"],
     valueOf        |-> [name |-> "valueOf"],
     hasOwnProperty |-> [name |-> "hasOwnProperty"],
     __proto__      |-> [isPrototype |-> TRUE]]

\* coverageData.payor?.[0]?.identifier?.[0]?.value, as the property key it is
\* used for: an undefined value indexes the key "undefined".
PayerId(coverageData) ==
    IF /\ "payor" \in DOMAIN coverageData
       /\ Len(coverageData.payor) >= 1
       /\ "identifier" \in DOMAIN coverageData.payor[1]
       /\ Len(coverageData.payor[1].identifier) >= 1
       /\ "value" \in DOMAIN coverageData.payor[1].identifier[1]
    THEN coverageData.payor[1].identifier[1].value
    ELSE "undefined"

\* this.mockPayers[payerId]; Null stands for undefined (falsy)
LookupPayer(payerId) ==
    IF payerId \in DOMAIN mockPayers THEN mockPayers[payerId]
    ELSE IF payerId \in DOMAIN ObjectPrototypeMembers
         THEN ObjectPrototypeMembers[payerId]
         ELSE Null

Benefits ==
    << [service |-> "Office Visit", coverage |-> "Covered",
        copay |-> "$25.00"],
       [service |-> "Preventive Care", coverage |-> "Covered 100%",
        copay |-> "$0.00"] >>

\* verifyEligibility; rnd is the outcome of Math.random() > 0.2 and now the
\* instant read by new Date()
verifyEligibility(patientData, coverageData, rnd, now) ==
    LET payerId == PayerId(coverageData)
        payer == LookupPayer(payerId)
        report == [status |-> "success",
                   eligible |-> rnd,
                   effectiveDate |-> "2024-01-01",
                   terminationDate |-> "2024-12-31",
                   copay |-> "$25.00",
                   deductible |-> "$1,500.00",
                   deductibleMet |-> "$450.00",
                   benefits |-> Benefits,
                   verificationDate |-> now]
    IN  IF payer = Null
        THEN [status |-> "error", message |-> "Payer not recognized",
              eligible |-> FALSE]
        ELSE IF "name" \in DOMAIN payer
             THEN report @@ [payerName |-> payer.name]
             ELSE report

-----------------------------------------------------------------------------
(* FHIRHelper: normalisation *)

TypeErrorUndefined(prop) ==
    <<"Cannot read properties of undefined (reading '", prop, "')">>

TypeErrorNull(prop) ==
    <<"Cannot read properties of null (reading '", prop, "')">>

CoverageFields == {"id", "status", "subscriberId", "payor", "period"}

extractCoverageInfo(coverage) ==
    IF coverage = Null THEN Throw(TypeErrorNull("entry"))
    ELSE IF "entry" \notin DOMAIN coverage \/ Len(coverage.entry) = 0
    THEN Return(Null)
    ELSE LET first == coverage.entry[1]
         IN  IF "resource" \notin DOMAIN first
             THEN Throw(TypeErrorUndefined("id"))
             ELSE LET coverageResource == first.resource
                  IN  Return([f \in CoverageFields \cap DOMAIN coverageResource
                                 |-> coverageResource[f]])

PassThroughFields == {"id", "birthDate", "gender"}

\* patient.telecom?.find(t => t.system === 'phone')
RECURSIVE FindPhone(_)
FindPhone(telecom) ==
    IF telecom = <<>> THEN Null
    ELSE IF "system" \in DOMAIN Head(telecom) /\ Head(telecom).system = "phone"
         THEN Head(telecom)
         ELSE FindPhone(Tail(telecom))

extractPatientInfo(p) ==
    IF p = Null THEN Throw(TypeErrorNull("name"))
    ELSE
    LET hasName == "name" \in DOMAIN p /\ Len(p.name) >= 1
        name == p.name[1]
        firstName == IF /\ hasName
                        /\ "given" \in DOMAIN name
                        /\ Len(name.given) >= 1
                     THEN name.given[1] ELSE ""
        lastName == IF hasName /\ "family" \in DOMAIN name
                    THEN name.family ELSE ""
        found == IF "telecom" \in DOMAIN p THEN FindPhone(p.telecom) ELSE Null
        phone == IF found # Null /\ "value" \in DOMAIN found
                 THEN [phone |-> found.value] ELSE <<>>
        address == IF "address" \in DOMAIN p /\ Len(p.address) >= 1
                   THEN [address |-> p.address[1]] ELSE <<>>
    IN  Return([f \in PassThroughFields \cap DOMAIN p |-> p[f]]
               @@ [firstName |-> firstName, lastName |-> lastName]
               @@ phone @@ address)

-----------------------------------------------------------------------------
(* The remote FHIR server, as seen through axios.get *)

HttpOk(data) == [ok |-> TRUE, data |-> data]

HttpError(status) == [ok |-> FALSE, hasResponse |-> TRUE, status |-> status]

\* no response at all: error.response is undefined
NetworkError == [ok |-> FALSE, hasResponse |-> FALSE]

FullPatient(id) ==
    [resourceType |-> "Patient", id |-> id,
     name |-> <<[family |-> "Lee", given |-> <<"Ann", "B">>]>>,
     birthDate |-> "1990-01-01", gender |-> "female",
     telecom |-> <<[system |-> "email", value |-> "ann@example.org"],
                   [system |-> "phone", value |-> "555-0100"]>>,
     address |-> <<[city |-> "Boston"], [city |-> "Salem"]>>]

MinimalPatient(id) == [resourceType |-> "Patient", id |-> id]

CoverageResource(id, payerValue) ==
    [resourceType |-> "Coverage", id |-> id, status |-> "active",
     subscriberId |-> "12345",
     payor |-> <<[identifier |-> <<[value |-> payerValue]>>]>>,
     period |-> [start |-> "2024-01-01"]]

\* responses of GET {base}/Patient/{id}
PatientFetchOutcomes(id) ==
    { HttpOk(FullPatient(id)), HttpOk(MinimalPatient(id)), HttpOk(Null),
      HttpError(404), HttpError(500), NetworkError }

GatewayBundles ==
    { [resourceType |-> "Bundle", total |-> 0],
      [resourceType |-> "Bundle", entry |-> <<>>],
      [resourceType |-> "Bundle", entry |-> <<[fullUrl |-> "urn:uuid:1"]>>],
      [resourceType |-> "Bundle",
       entry |-> <<[resource |-> CoverageResource("cov-1", "BCBS001")]>>],
      [resourceType |-> "Bundle",
       entry |-> <<[resource |-> CoverageResource("cov-2", "ZZZ999")]>>],
      [resourceType |-> "Bundle",
       entry |-> <<[resource |-> CoverageResource("cov-3", "toString")]>>] }

\* responses of GET {base}/Coverage?patient={id}
CoverageFetchOutcomes ==
    { HttpOk(b) : b \in GatewayBundles }
        \cup { HttpError(404), HttpError(500), NetworkError }

-----------------------------------------------------------------------------
(* FHIRHelper: fetches.  `out` is what axios.get produced. *)

getPatient(patientId, out) ==
    IF out.ok THEN Return(out.data)
    ELSE IF out.hasResponse /\ out.status = 404
         THEN Throw(<<"Patient with ID '", patientId,
                      "' not found. Try searching for patients first.">>)
         ELSE Throw(<<"Failed to fetch patient data">>)

\* variant: the catch block propagates the failure as getPatient does
getCoverage_Propagates(patientId, out) ==
    IF out.ok THEN Return(out.data)
    ELSE Throw(<<"Failed to fetch coverage data">>)

getCoverage(patientId, out) ==
    IF out.ok THEN Return(out.data)
    ELSE Return([entry |-> <<>>])

-----------------------------------------------------------------------------
(* Bookkeeping of remote operations and responses *)

PatientOp(id, i) == [op |-> "patient", id |-> id, idx |-> i]

CoverageOp(id, i) == [op |-> "coverage", id |-> id, idx |-> i]

\* the call insuranceService.verifyEligibility(patientInfo, coverageInfo)
StubOp(id, i, pInfo, cInfo) ==
    [op |-> "stub", id |-> id, idx |-> i, patient |-> pInfo,
     coverage |-> cInfo]

Issued(o) == o @@ [ev |-> "issue"]

Completed(o, out) == o @@ [ev |-> "complete", out |-> out]

Recorded(id, i) == [ev |-> "record", op |-> "push", id |-> id, idx |-> i]

Sent(status, json) == [sent |-> TRUE, status |-> status, json |-> json]

Failure(msg) == [success |-> FALSE, error |-> msg]

\* the one operation the handler is suspended on
Pending == CHOOSE o \in outstanding : TRUE

\* `!x` for a body property that is a string when present
Missing(b, prop) == prop \notin DOMAIN b \/ b[prop] = ""

\* variant: the null check is lost and every coverageInfo counts as present
HasCoverage_Always(cInfo) == TRUE

\* truthiness of coverageInfo, which is an object or null
HasCoverage(cInfo) == cInfo # Null

ClearLocals ==
    /\ idx' = 0
    /\ patient' = Null
    /\ patientInfo' = Null
    /\ coverageInfo' = Null
    /\ results' = <<>>

\* the handler sends its response and ends
Finish(resp, ev) ==
    /\ response' = resp
    /\ pc' = "done"
    /\ outstanding' = {}
    /\ log' = log \o ev

\* the handler awaits the remote operation o
Await(o, ev, at) ==
    /\ pc' = at
    /\ outstanding' = (outstanding \ {Pending}) \cup {o}
    /\ log' = log \o ev \o <<Issued(o)>>
    /\ UNCHANGED response

-----------------------------------------------------------------------------
(* POST /api/verify-insurance *)

SingleBodies ==
    { [patientId |-> id] : id \in PatientIds }
        \cup { [patientId |-> ""], [other |-> "x"] }

\* variant: both fetches are started together (Promise.all)
VerifyInsuranceFirstOps_Parallel(patientId) ==
    <<PatientOp(patientId, 0), CoverageOp(patientId, 0)>>

\* the remote operations the handler starts with
VerifyInsuranceFirstOps(patientId) == <<PatientOp(patientId, 0)>>

VerifyInsurance_Receive(b) ==
    /\ pc = "idle"
    /\ endpoint' = "verify-insurance"
    /\ body' = b
    /\ ClearLocals
    /\ IF Missing(b, "patientId")
       THEN /\ response' = Sent(400, Failure(<<"Patient ID is required">>))
            /\ pc' = "done"
            /\ outstanding' = {}
            /\ log' = <<>>
       ELSE /\ response' = NoResponse
            /\ pc' = "awaitPatient"
            /\ LET first == VerifyInsuranceFirstOps(b.patientId)
               IN  /\ outstanding' = {first[k] : k \in DOMAIN first}
                   /\ log' = [k \in DOMAIN first |-> Issued(first[k])]
    /\ UNCHANGED fnVars

VerifyInsurance_PatientDone ==
    /\ endpoint = "verify-insurance"
    /\ pc = "awaitPatient"
    /\ \E out \in PatientFetchOutcomes(body.patientId) :
       LET got == getPatient(body.patientId, out)
           done == <<Completed(PatientOp(body.patientId, 0), out)>>
       IN  IF got.threw
           THEN /\ Finish(Sent(500, Failure(got.error)), done)
                /\ UNCHANGED patient
           ELSE /\ patient' = got.value
                /\ Await(CoverageOp(body.patientId, 0), done, "awaitCoverage")
    /\ UNCHANGED <<endpoint, body, idx, patientInfo, coverageInfo, results>>
    /\ UNCHANGED fnVars

VerifyInsurance_CoverageDone(out) ==
    /\ endpoint = "verify-insurance"
    /\ pc = "awaitCoverage"
    /\ LET got == getCoverage(body.patientId, out)
           pInfo == extractPatientInfo(patient)
           cInfo == extractCoverageInfo(got.value)
           done == <<Completed(CoverageOp(body.patientId, 0), out)>>
       IN  IF got.threw
           THEN /\ Finish(Sent(500, Failure(got.error)), done)
                /\ UNCHANGED <<patientInfo, coverageInfo>>
           ELSE IF pInfo.threw
           THEN /\ Finish(Sent(500, Failure(pInfo.error)), done)
                /\ UNCHANGED <<patientInfo, coverageInfo>>
           ELSE IF cInfo.threw
           THEN /\ Finish(Sent(500, Failure(cInfo.error)), done)
                /\ patientInfo' = pInfo.value
                /\ UNCHANGED coverageInfo
           ELSE /\ patientInfo' = pInfo.value
                /\ coverageInfo' = cInfo.value
                /\ IF ~HasCoverage(cInfo.value)
                   THEN Finish(Sent(200,
                           [success |-> TRUE,
                            verification |->
                              [status |-> "no_coverage",
                               message |->
                                 "No insurance coverage found for patient"],
                            patient |-> pInfo.value]), done)
                   ELSE Await(StubOp(body.patientId, 0, pInfo.value,
                                     cInfo.value), done, "awaitStub")
    /\ UNCHANGED <<endpoint, body, idx, patient, results>>
    /\ UNCHANGED fnVars

VerifyInsurance_StubDone(rnd, now) ==
    /\ endpoint = "verify-insurance"
    /\ pc = "awaitStub"
    /\ LET verification ==
               verifyEligibility(patientInfo, coverageInfo, rnd, now)
           called == StubOp(body.patientId, 0, patientInfo, coverageInfo)
       IN  Finish(Sent(200, [success |-> TRUE,
                             patient |-> patientInfo,
                             coverage |-> coverageInfo,
                             verification |-> verification]),
                  <<Completed(called, verification)>>)
    /\ UNCHANGED <<endpoint, body, idx, patient, patientInfo, coverageInfo,
                   results>>
    /\ UNCHANGED fnVars

-----------------------------------------------------------------------------
(* POST /api/verify-batch *)

RECURSIVE SeqsUpTo(_, _)
SeqsUpTo(S, n) ==
    IF n = 0 THEN {<<>>}
    ELSE LET shorter == SeqsUpTo(S, n - 1)
         IN  shorter \cup { Append(q, x) : q \in shorter, x \in S }

BatchBodies ==
    { [patientIds |-> [type |-> "array", items |-> ids]] :
          ids \in SeqsUpTo(PatientIds, MaxBatch) }
        \cup { [patientIds |-> [type |-> "string", value |-> "not-a-list"]],
               [other |-> "x"] }

\* variant: the length test is left out
InvalidBatch_NoLengthCheck(b) ==
    \/ "patientIds" \notin DOMAIN b
    \/ b.patientIds.type # "array"

\* !Array.isArray(patientIds) || patientIds.length === 0
InvalidBatch(b) ==
    \/ "patientIds" \notin DOMAIN b
    \/ b.patientIds.type # "array"
    \/ Len(b.patientIds.items) = 0

\* variant: results.unshift(entry)
BatchPush_Unshift(res, entry) == <<entry>> \o res

\* results.push(entry)
BatchPush(res, entry) == Append(res, entry)

\* variant: the catch block rethrows instead of recording
BatchCatch_Rethrows(res, patientId, msg) ==
    [rethrow |-> TRUE, results |-> res]

\* the catch block of the loop body: record the failure; nothing is rethrown
BatchCatch(res, patientId, msg) ==
    [rethrow |-> FALSE,
     results |-> BatchPush(res, [patientId |-> patientId, error |-> msg])]

BatchIds == body.patientIds.items

\* the end of one loop body: next iteration, or the response after the loop
BatchContinue(newResults, ev) ==
    LET recorded == ev \o <<Recorded(BatchIds[idx], idx)>>
    IN  /\ results' = newResults
        /\ patient' = Null
        /\ patientInfo' = Null
        /\ coverageInfo' = Null
        /\ IF idx < Len(BatchIds)
           THEN /\ idx' = idx + 1
                /\ Await(PatientOp(BatchIds[idx + 1], idx + 1), recorded,
                         "awaitPatient")
           ELSE /\ idx' = idx
                /\ Finish(Sent(200, [success |-> TRUE,
                                     results |-> newResults]), recorded)

\* an exception thrown inside the loop body
BatchCaught(msg, ev) ==
    LET c == BatchCatch(results, BatchIds[idx], msg)
    IN  IF c.rethrow
        THEN /\ Finish(Sent(500, Failure(msg)), ev)
             /\ UNCHANGED <<idx, results, patient, patientInfo, coverageInfo>>
        ELSE BatchContinue(c.results, ev)

VerifyBatch_Receive(b) ==
    /\ pc = "idle"
    /\ endpoint' = "verify-batch"
    /\ body' = b
    /\ patient' = Null
    /\ patientInfo' = Null
    /\ coverageInfo' = Null
    /\ results' = <<>>
    /\ IF InvalidBatch(b)
       THEN /\ response' =
                   Sent(400, Failure(<<"Array of patient IDs is required">>))
            /\ pc' = "done"
            /\ idx' = 0
            /\ outstanding' = {}
            /\ log' = <<>>
       ELSE IF Len(b.patientIds.items) = 0
       THEN \* for..of over an empty array: the loop body never runs
            /\ response' = Sent(200, [success |-> TRUE, results |-> <<>>])
            /\ pc' = "done"
            /\ idx' = 0
            /\ outstanding' = {}
            /\ log' = <<>>
       ELSE /\ response' = NoResponse
            /\ pc' = "awaitPatient"
            /\ idx' = 1
            /\ outstanding' = {PatientOp(b.patientIds.items[1], 1)}
            /\ log' = <<Issued(PatientOp(b.patientIds.items[1], 1))>>
    /\ UNCHANGED fnVars

VerifyBatch_PatientDone ==
    /\ endpoint = "verify-batch"
    /\ pc = "awaitPatient"
    /\ \E out \in PatientFetchOutcomes(BatchIds[idx]) :
       LET patientId == BatchIds[idx]
           got == getPatient(patientId, out)
           done == <<Completed(PatientOp(patientId, idx), out)>>
       IN  IF got.threw
           THEN BatchCaught(got.error, done)
           ELSE /\ patient' = got.value
                /\ Await(CoverageOp(patientId, idx), done, "awaitCoverage")
                /\ UNCHANGED <<idx, results, patientInfo, coverageInfo>>
    /\ UNCHANGED <<endpoint, body>>
    /\ UNCHANGED fnVars

VerifyBatch_CoverageDone(out) ==
    /\ endpoint = "verify-batch"
    /\ pc = "awaitCoverage"
    /\ LET patientId == BatchIds[idx]
           got == getCoverage(patientId, out)
           pInfo == extractPatientInfo(patient)
           cInfo == extractCoverageInfo(got.value)
           done == <<Completed(CoverageOp(patientId, idx), out)>>
       IN  IF got.threw THEN BatchCaught(got.error, done)
           ELSE IF pInfo.threw THEN BatchCaught(pInfo.error, done)
           ELSE IF cInfo.threw THEN BatchCaught(cInfo.error, done)
           ELSE IF HasCoverage(cInfo.value)
           THEN /\ patientInfo' = pInfo.value
                /\ coverageInfo' = cInfo.value
                /\ Await(StubOp(patientId, idx, pInfo.value, cInfo.value),
                         done, "awaitStub")
                /\ UNCHANGED <<idx, results, patient>>
           ELSE BatchContinue(
                    BatchPush(results,
                              [patientId |-> patientId,
                               patient |-> pInfo.value,
                               coverage |-> cInfo.value,
                               verification |-> [status |-> "no_coverage"]]),
                    done)
    /\ UNCHANGED <<endpoint, body>>
    /\ UNCHANGED fnVars

VerifyBatch_StubDone(rnd, now) ==
    /\ endpoint = "verify-batch"
    /\ pc = "awaitStub"
    /\ LET patientId == BatchIds[idx]
           verification ==
               verifyEligibility(patientInfo, coverageInfo, rnd, now)
           called == StubOp(patientId, idx, patientInfo, coverageInfo)
       IN  BatchContinue(
               BatchPush(results,
                         [patientId |-> patientId,
                          patient |-> patientInfo,
                          coverage |-> coverageInfo,
                          verification |-> verification]),
               <<Completed(called, verification)>>)
    /\ UNCHANGED <<endpoint, body>>
    /\ UNCHANGED fnVars

-----------------------------------------------------------------------------
(* GET /api/patient/:id *)

GetPatient_Receive(id) ==
    /\ pc = "idle"
    /\ endpoint' = "patient"
    /\ body' = [id |-> id]
    /\ ClearLocals
    /\ response' = NoResponse
    /\ pc' = "awaitPatient"
    /\ outstanding' = {PatientOp(id, 0)}
    /\ log' = <<Issued(PatientOp(id, 0))>>
    /\ UNCHANGED fnVars

GetPatient_Done ==
    /\ endpoint = "patient"
    /\ pc = "awaitPatient"
    /\ \E out \in PatientFetchOutcomes(body.id) :
       LET got == getPatient(body.id, out)
           pInfo == extractPatientInfo(got.value)
           done == <<Completed(PatientOp(body.id, 0), out)>>
       IN  IF got.threw
           THEN /\ Finish(Sent(404, Failure(got.error)), done)
                /\ UNCHANGED <<patient, patientInfo>>
           ELSE IF pInfo.threw
           THEN /\ Finish(Sent(404, Failure(pInfo.error)), done)
                /\ patient' = got.value
                /\ UNCHANGED patientInfo
           ELSE /\ Finish(Sent(200, [success |-> TRUE,
                                     patient |-> pInfo.value]), done)
                /\ patient' = got.value
                /\ patientInfo' = pInfo.value
    /\ UNCHANGED <<endpoint, body, idx, coverageInfo, results>>
    /\ UNCHANGED fnVars

-----------------------------------------------------------------------------
(* GET /api/coverage/:patientId *)

GetCoverage_Receive(id) ==
    /\ pc = "idle"
    /\ endpoint' = "coverage"
    /\ body' = [patientId |-> id]
    /\ ClearLocals
    /\ response' = NoResponse
    /\ pc' = "awaitCoverage"
    /\ outstanding' = {CoverageOp(id, 0)}
    /\ log' = <<Issued(CoverageOp(id, 0))>>
    /\ UNCHANGED fnVars

GetCoverage_Done(out) ==
    /\ endpoint = "coverage"
    /\ pc = "awaitCoverage"
    /\ LET got == getCoverage(body.patientId, out)
           cInfo == extractCoverageInfo(got.value)
           done == <<Completed(CoverageOp(body.patientId, 0), out)>>
       IN  IF got.threw
           THEN /\ Finish(Sent(500, Failure(got.error)), done)
                /\ UNCHANGED coverageInfo
           ELSE IF cInfo.threw
           THEN /\ Finish(Sent(500, Failure(cInfo.error)), done)
                /\ UNCHANGED coverageInfo
           ELSE /\ Finish(Sent(200, [success |-> TRUE,
                                     coverage |-> cInfo.value]), done)
                /\ coverageInfo' = cInfo.value
    /\ UNCHANGED <<endpoint, body, idx, patient, patientInfo, results>>
    /\ UNCHANGED fnVars

-----------------------------------------------------------------------------
(* Specification *)

Init ==
    /\ endpoint = "none"
    /\ pc = "idle"
    /\ body = <<>>
    /\ idx = 0
    /\ patient = Null
    /\ patientInfo = Null
    /\ coverageInfo = Null
    /\ results = <<>>
    /\ response = NoResponse
    /\ outstanding = {}
    /\ log = <<>>
    /\ fnIn = NotRun
    /\ fnOut = NotRun

Next ==
    \/ \E b \in SingleBodies : VerifyInsurance_Receive(b)
    \/ VerifyInsurance_PatientDone
    \/ \E out \in CoverageFetchOutcomes : VerifyInsurance_CoverageDone(out)
    \/ \E rnd \in BOOLEAN, now \in NowValues :
           VerifyInsurance_StubDone(rnd, now)
    \/ \E b \in BatchBodies : VerifyBatch_Receive(b)
    \/ VerifyBatch_PatientDone
    \/ \E out \in CoverageFetchOutcomes : VerifyBatch_CoverageDone(out)
    \/ \E rnd \in BOOLEAN, now \in NowValues :
           VerifyBatch_StubDone(rnd, now)
    \/ \E id \in PatientIds : GetPatient_Receive(id)
    \/ GetPatient_Done
    \/ \E id \in PatientIds : GetCoverage_Receive(id)
    \/ \E out \in CoverageFetchOutcomes : GetCoverage_Done(out)

Spec == Init /\ [][Next]_vars

-----------------------------------------------------------------------------
(* Evaluation of the pure functions on their own *)

FnCoverageResources ==
    { CoverageResource("cov-1", "BCBS001"),
      CoverageResource("cov-2", "AETNA001"),
      CoverageResource("cov-3", "UHC001"),
      CoverageResource("cov-4", "ZZZ999"),
      CoverageResource("cov-5", "toString"),
      CoverageResource("cov-6", "__proto__"),
      [resourceType |-> "Coverage", id |-> "cov-7"],
      [resourceType |-> "Coverage", status |-> "active", payor |-> <<>>],
      [resourceType |-> "Coverage", id |-> "cov-9",
       payor |-> <<[reference |-> "Organization/1"]>>],
      [resourceType |-> "Coverage", id |-> "cov-10",
       payor |-> <<[identifier |-> <<>>]>>],
      [resourceType |-> "Coverage", id |-> "cov-11",
       payor |-> <<[identifier |-> <<[system |-> "urn:payer"]>>]>>] }

FnEntries ==
    { [fullUrl |-> "urn:uuid:1"] }
        \cup { [resource |-> r] : r \in FnCoverageResources }

FnBundles ==
    { [resourceType |-> "Bundle", total |-> 0] }
        \cup { [resourceType |-> "Bundle", entry |-> es] :
                   es \in SeqsUpTo(FnEntries, MaxEntries) }

\* the coverage records normalisation can hand to the stub
FnCoverageRecords ==
    { extractCoverageInfo([entry |-> <<[resource |-> r]>>]).value :
          r \in FnCoverageResources }

FnInputs ==
    { [fn |-> "extractCoverageInfo", coverage |-> b] : b \in FnBundles }
        \cup { [fn |-> "verifyEligibility",
                patient |-> extractPatientInfo(FullPatient("p1")).value,
                coverage |-> c, rnd |-> r, now |-> t] :
                   c \in FnCoverageRecords, r \in BOOLEAN, t \in NowValues }

FnInit ==
    /\ endpoint = "none"
    /\ pc = "idle"
    /\ body = <<>>
    /\ idx = 0
    /\ patient = Null
    /\ patientInfo = Null
    /\ coverageInfo = Null
    /\ results = <<>>
    /\ response = NoResponse
    /\ outstanding = {}
    /\ log = <<>>
    /\ fnIn \in FnInputs
    /\ fnOut = NotRun

Apply_extractCoverageInfo ==
    /\ fnOut = NotRun
    /\ fnIn.fn = "extractCoverageInfo"
    /\ fnOut' = extractCoverageInfo(fnIn.coverage)
    /\ UNCHANGED <<fnIn, reqVars>>

Apply_verifyEligibility ==
    /\ fnOut = NotRun
    /\ fnIn.fn = "verifyEligibility"
    /\ fnOut' = verifyEligibility(fnIn.patient, fnIn.coverage, fnIn.rnd,
                                  fnIn.now)
    /\ UNCHANGED <<fnIn, reqVars>>

FnNext ==
    \/ Apply_extractCoverageInfo
    \/ Apply_verifyEligibility

FnSpec == FnInit /\ [][FnNext]_vars

-----------------------------------------------------------------------------
(* Reading the event log *)

Events(ev, op, i) ==
    { k \in DOMAIN log : log[k].ev = ev /\ log[k].op = op /\ log[k].idx = i }

HasDone(op, i) == Events("complete", op, i) # {}

\* what the remote operation op of position i produced
DoneOut(op, i) == log[CHOOSE k \in Events("complete", op, i) : TRUE].out

StubCalls == { k \in DOMAIN log : log[k].ev = "issue" /\ log[k].op = "stub" }

Answered == pc = "done" /\ response.sent

\* a batch request over a non-empty list
NonEmptyList ==
    /\ endpoint = "verify-batch"
    /\ "patientIds" \in DOMAIN body
    /\ body.patientIds.type = "array"
    /\ Len(body.patientIds.items) > 0

NotFoundMessage(id) ==
    <<"Patient with ID '", id,
      "' not found. Try searching for patients first.">>

NoCoverageReport ==
    [status |-> "no_coverage",
     message |-> "No insurance coverage found for patient"]

\* a patient fetch that delivered a patient resource
PatientDelivered(i) ==
    /\ HasDone("patient", i)
    /\ DoneOut("patient", i).ok
    /\ DoneOut("patient", i).data # Null

CoverageFetchFailed(i) ==
    HasDone("coverage", i) /\ ~DoneOut("coverage", i).ok

UpstreamSaid404(i) ==
    /\ HasDone("patient", i)
    /\ ~DoneOut("patient", i).ok
    /\ DoneOut("patient", i).hasResponse
    /\ DoneOut("patient", i).status = 404

-----------------------------------------------------------------------------
(* C1 *)

\* C1: POST /api/verify-insurance whose patient fetch reports HTTP 404
\* answers with status 404 and {success:false, error: "Patient with ID
\* '<patientId>' not found..."}.
C1_NotFoundAnswers404 ==
    (endpoint = "verify-insurance" /\ Answered /\ UpstreamSaid404(0))
        => /\ response.status = 404
           /\ response.json = Failure(NotFoundMessage(body.patientId))

-----------------------------------------------------------------------------
(* C2 *)

\* the entry position i must hold, from its identifier and from what the
\* operations issued for position i produced, and from nothing else
EntryFromOwnOutcomes(i) ==
    LET id == BatchIds[i]
        fetched == DoneOut("patient", i)
        failed(msg) == [patientId |-> id, error |-> msg]
    IN  IF ~fetched.ok
        THEN failed(IF fetched.hasResponse /\ fetched.status = 404
                    THEN NotFoundMessage(id)
                    ELSE <<"Failed to fetch patient data">>)
        ELSE LET cov == DoneOut("coverage", i)
                 bundle == IF cov.ok THEN cov.data ELSE [entry |-> <<>>]
                 pInfo == extractPatientInfo(fetched.data)
                 cInfo == extractCoverageInfo(bundle)
             IN  IF pInfo.threw THEN failed(pInfo.error)
                 ELSE IF cInfo.threw THEN failed(cInfo.error)
                 ELSE [patientId |-> id,
                       patient |-> pInfo.value,
                       coverage |-> cInfo.value,
                       verification |->
                           IF cInfo.value = Null
                           THEN [status |-> "no_coverage"]
                           ELSE DoneOut("stub", i)]

\* C2: in a batch over a non-empty list a failure of one identifier is
\* recorded as an entry with that identifier and the message, every later
\* identifier is still processed, every entry depends on its own
\* identifier's outcomes only, and the response is a success, never a 500.
C2_BatchIsolatesFailures ==
    NonEmptyList
        => /\ \A i \in 1..Len(results) :
                  /\ HasDone("patient", i)
                  /\ results[i] = EntryFromOwnOutcomes(i)
           /\ response.sent
                  => /\ response.status = 200
                     /\ response.json.success
                     /\ response.json.results = results
                     /\ Len(results) = Len(BatchIds)
                     /\ \A i \in 1..Len(BatchIds) : HasDone("patient", i)

\* a failed first identifier followed by a verified second one
C2_Witness ==
    /\ endpoint = "verify-batch"
    /\ Answered
    /\ Len(results) = 2
    /\ "error" \in DOMAIN results[1]
    /\ "verification" \in DOMAIN results[2]
    /\ results[2].verification.status = "success"

-----------------------------------------------------------------------------
(* C3 *)

ErrorShape == {"patientId", "error"}

SuccessShape == {"patientId", "patient", "coverage", "verification"}

\* C3: for a non-empty list (duplicates included) the results list has the
\* length of the input, its i-th entry carries the i-th identifier, and each
\* entry is either an error entry or a success entry, never a mixture.
C3_BatchResultsAligned ==
    NonEmptyList
        => /\ Len(results) <= Len(BatchIds)
           /\ \A i \in 1..Len(results) :
                  /\ results[i].patientId = BatchIds[i]
                  /\ DOMAIN results[i] \in {ErrorShape, SuccessShape}
           /\ response.sent
                  => /\ Len(response.json.results) = Len(BatchIds)
                     /\ response.json.results = results

\* a batch naming the same identifier twice, answered with one entry of
\* each shape
C3_Witness ==
    /\ NonEmptyList
    /\ Answered
    /\ Len(BatchIds) = 2
    /\ BatchIds[1] = BatchIds[2]
    /\ DOMAIN results[1] = SuccessShape
    /\ DOMAIN results[2] = ErrorShape

-----------------------------------------------------------------------------
(* C4 *)

\* the coverage of position i normalised to null, after a patient that
\* normalised
NormalisedToNoCoverage(i) ==
    /\ PatientDelivered(i)
    /\ HasDone("coverage", i)
    /\ LET cov == DoneOut("coverage", i)
       IN  extractCoverageInfo(IF cov.ok THEN cov.data
                               ELSE [entry |-> <<>>]) = Return(Null)

\* C4: the eligibility stub is only ever called with a non-null coverage
\* record; when the normalised coverage is null, single verification answers
\* with the no_coverage verification and the patient record and calls the
\* stub zero times.
C4_StubNeedsCoverage ==
    /\ \A k \in StubCalls : log[k].coverage # Null
    /\ \A o \in outstanding : o.op = "stub" => o.coverage # Null
    /\ (endpoint = "verify-insurance" /\ NormalisedToNoCoverage(0))
           => /\ StubCalls = {}
              /\ Answered
              /\ response.status = 200
              /\ response.json =
                     [success |-> TRUE,
                      verification |-> NoCoverageReport,
                      patient |->
                          extractPatientInfo(DoneOut("patient", 0).data).value]

C4_Witness ==
    /\ endpoint = "verify-insurance"
    /\ Answered
    /\ NormalisedToNoCoverage(0)
    /\ DoneOut("coverage", 0).ok
    /\ response.json.verification.status = "no_coverage"

-----------------------------------------------------------------------------
(* C5 *)

\* C5: when the patient fetch delivered a patient and the coverage fetch
\* failed (network error, 404, other HTTP error), no error is surfaced:
\* POST /api/verify-insurance answers success with no_coverage and the
\* patient record, GET /api/coverage/:patientId answers success with coverage
\* null, and the batch entry is a success entry with no_coverage.
C5_CoverageFailureIsSoft ==
    /\ (endpoint = "verify-insurance" /\ PatientDelivered(0)
            /\ CoverageFetchFailed(0))
           => /\ Answered
              /\ response.status = 200
              /\ response.json.success
              /\ "error" \notin DOMAIN response.json
              /\ response.json.verification.status = "no_coverage"
              /\ response.json.patient =
                     extractPatientInfo(DoneOut("patient", 0).data).value
    /\ (endpoint = "coverage" /\ CoverageFetchFailed(0))
           => /\ Answered
              /\ response.status = 200
              /\ response.json = [success |-> TRUE, coverage |-> Null]
    /\ NonEmptyList
           => \A i \in 1..Len(BatchIds) :
                  (PatientDelivered(i) /\ CoverageFetchFailed(i))
                      => /\ Len(results) >= i
                         /\ DOMAIN results[i] = SuccessShape
                         /\ results[i].patientId = BatchIds[i]
                         /\ results[i].coverage = Null
                         /\ results[i].verification.status = "no_coverage"
                         /\ results[i].patient =
                                extractPatientInfo(
                                    DoneOut("patient", i).data).value

\* a batch answered after the coverage fetch of its second identifier failed
C5_Witness ==
    /\ endpoint = "verify-batch"
    /\ Answered
    /\ Len(results) = 2
    /\ PatientDelivered(2)
    /\ CoverageFetchFailed(2)
    /\ ~DoneOut("coverage", 2).hasResponse

-----------------------------------------------------------------------------
(* C6 *)

\* the request bodies the claim calls invalid
NoPatientId == "patientId" \notin DOMAIN body

NotAList == "patientIds" \notin DOMAIN body \/ body.patientIds.type # "array"

EmptyList ==
    /\ "patientIds" \in DOMAIN body
    /\ body.patientIds.type = "array"
    /\ body.patientIds.items = <<>>

\* C6: POST /api/verify-insurance without a patientId, and POST
\* /api/verify-batch with an empty list or no list, answer 400 with
\* success:false, and no patient fetch, coverage fetch or stub call is ever
\* issued for them.
C6_InvalidInputRejectedFirst ==
    (\/ endpoint = "verify-insurance" /\ NoPatientId
     \/ endpoint = "verify-batch" /\ (NotAList \/ EmptyList))
        => /\ Answered
           /\ response.status = 400
           /\ ~response.json.success
           /\ Len(response.json.error) > 0
           /\ log = <<>>
           /\ outstanding = {}
           /\ results = <<>>

C6_Witness ==
    /\ endpoint = "verify-batch"
    /\ EmptyList
    /\ Answered
    /\ response.status = 400

-----------------------------------------------------------------------------
(* C7 *)

\* C7: on GET /api/patient/:id and POST /api/verify-insurance a patient
\* fetch failure other than HTTP 404 is answered with HTTP 500 and a
\* message, and HTTP 404 is answered only when the upstream reported 404.
C7_Only404IsNotFound ==
    (endpoint \in {"patient", "verify-insurance"} /\ Answered)
        => /\ (HasDone("patient", 0) /\ ~DoneOut("patient", 0).ok
                   /\ ~UpstreamSaid404(0))
                  => /\ response.status = 500
                     /\ ~response.json.success
                     /\ Len(response.json.error) > 0
           /\ response.status = 404 => UpstreamSaid404(0)

-----------------------------------------------------------------------------
(* C8 *)

TableKeys == {"BCBS001", "AETNA001", "UHC001"}

TableName(key) ==
    CASE key = "BCBS001" -> "Blue Cross Blue Shield"
      [] key = "AETNA001" -> "Aetna"
      [] key = "UHC001" -> "United Healthcare"

\* C8: the stub's report has status "success" exactly when the payer id at
\* coverage.payor[0].identifier[0].value is one of the three table keys, then
\* with the table's payerName and exactly 2 benefits; for any other or absent
\* payer id it is exactly {status: "error", message: "Payer not recognized",
\* eligible: false}.
C8_StubKnowsThreePayers ==
    (fnIn.fn = "verifyEligibility" /\ fnOut # NotRun)
        => LET payerId == PayerId(fnIn.coverage)
           IN  IF payerId \in TableKeys
               THEN /\ fnOut.status = "success"
                    /\ fnOut.payerName = TableName(payerId)
                    /\ Len(fnOut.benefits) = 2
                    /\ fnOut.benefits = Benefits
               ELSE fnOut = [status |-> "error",
                             message |-> "Payer not recognized",
                             eligible |-> FALSE]

-----------------------------------------------------------------------------
(* C9 *)

\* C9: extractCoverage never fails: it returns null when the entry list is
\* absent or empty, and for a bundle with at least one entry (also one whose
\* resource is absent or lacks fields) a record whose id, status,
\* subscriberId, payor and period are those of entry[0]'s resource, whatever
\* the entries after it.
C9_ExtractCoverageTotal ==
    (fnIn.fn = "extractCoverageInfo" /\ fnOut # NotRun)
        => LET bundle == fnIn.coverage
           IN  /\ ~fnOut.threw
               /\ IF "entry" \notin DOMAIN bundle \/ bundle.entry = <<>>
                  THEN fnOut.value = Null
                  ELSE LET first == bundle.entry[1]
                           src == IF "resource" \in DOMAIN first
                                  THEN first.resource ELSE <<>>
                       IN  /\ fnOut.value # Null
                           /\ \A f \in CoverageFields :
                                  IF f \in DOMAIN src
                                  THEN /\ f \in DOMAIN fnOut.value
                                       /\ fnOut.value[f] = src[f]
                                  ELSE f \notin DOMAIN fnOut.value

-----------------------------------------------------------------------------
(* C10 *)

IssuesBefore(k) == { j \in 1..(k - 1) : log[j].ev = "issue" }

CompletesBefore(k) == { j \in 1..(k - 1) : log[j].ev = "complete" }

\* the operation issued at position k of the log was answered successfully
\* at an earlier position
DoneBefore(k, op, needOk) ==
    \E j \in 1..(k - 1) :
        /\ log[j].ev = "complete"
        /\ log[j].op = op
        /\ log[j].idx = log[k].idx
        /\ needOk => log[j].out.ok

\* C10: within one verification the coverage fetch of an identifier is issued
\* only after its patient fetch completed successfully (a failed patient
\* fetch is followed by no coverage fetch and no stub call for it), the stub
\* is called only after the coverage fetch completed, in a batch nothing is
\* issued for identifier i+1 before the entry of identifier i is recorded,
\* and at most one remote operation is outstanding at any time.
C10_StrictlySequential ==
    (endpoint \in {"verify-insurance", "verify-batch"})
        => /\ Cardinality(outstanding) <= 1
           /\ \A k \in DOMAIN log :
                  /\ log[k].ev = "issue"
                         => Cardinality(IssuesBefore(k))
                                = Cardinality(CompletesBefore(k))
                  /\ (log[k].ev = "issue" /\ log[k].op = "coverage")
                         => DoneBefore(k, "patient", TRUE)
                  /\ (log[k].ev = "issue" /\ log[k].op = "stub")
                         => DoneBefore(k, "coverage", FALSE)
                  /\ (log[k].ev = "complete" /\ log[k].op = "patient"
                          /\ ~log[k].out.ok)
                         => \A j \in DOMAIN log :
                                log[j].idx = log[k].idx
                                    => log[j].op \notin {"coverage", "stub"}
                  /\ log[k].idx > 1
                         => \E j \in 1..(k - 1) :
                                /\ log[j].ev = "record"
                                /\ log[j].idx = log[k].idx - 1

\* a batch that called the stub for its first identifier and then went on
\* to the second
C10_Witness ==
    /\ NonEmptyList
    /\ Answered
    /\ Len(BatchIds) = 2
    /\ HasDone("stub", 1)
    /\ HasDone("coverage", 2)
    /\ DoneOut("stub", 1).status = "success"

-----------------------------------------------------------------------------
(* C11 *)

\* the JSON body POST /api/verify-insurance sends for the identifier id when
\* its remote operations produce what those logged for position i produced
verifyInsuranceAnswer(i, id, rnd, now) ==
    LET got == getPatient(id, DoneOut("patient", i))
    IN  IF got.threw THEN Failure(got.error)
        ELSE LET cov == getCoverage(id, DoneOut("coverage", i))
                 pInfo == extractPatientInfo(got.value)
                 cInfo == extractCoverageInfo(cov.value)
             IN  IF cov.threw THEN Failure(cov.error)
                 ELSE IF pInfo.threw THEN Failure(pInfo.error)
                 ELSE IF cInfo.threw THEN Failure(cInfo.error)
                 ELSE IF ~HasCoverage(cInfo.value)
                 THEN [success |-> TRUE,
                       verification |->
                           [status |-> "no_coverage",
                            message |->
                                "No insurance coverage found for patient"],
                       patient |-> pInfo.value]
                 ELSE [success |-> TRUE,
                       patient |-> pInfo.value,
                       coverage |-> cInfo.value,
                       verification |->
                           verifyEligibility(pInfo.value, cInfo.value,
                                             rnd, now)]

\* verifyInsuranceAnswer is what the handler of POST /api/verify-insurance
\* sends, step by step, in every run that issued its patient fetch
verifyInsuranceAnswerIsSent ==
    (endpoint = "verify-insurance" /\ Answered /\ HasDone("patient", 0))
        => \E rnd \in BOOLEAN, now \in NowValues :
               response.json
                   = verifyInsuranceAnswer(0, body.patientId, rnd, now)

WithoutEligible(v) == [f \in DOMAIN v \ {"eligible"} |-> v[f]]

\* the patient, coverage and verification of an answer or entry; an absent
\* part (and a null coverage) reads Null, the random flag is left out
Content(r) ==
    [patient |-> IF "patient" \in DOMAIN r THEN r.patient ELSE Null,
     coverage |-> IF "coverage" \in DOMAIN r THEN r.coverage ELSE Null,
     verification |-> IF "verification" \in DOMAIN r
                      THEN WithoutEligible(r.verification) ELSE Null]

\* C11: for every identifier of a batch and every combination of gateway
\* outcomes, the patient, coverage and verification of its batch entry equal
\* those of the single-verification answer for the same identifier and
\* outcomes, the no_coverage verification {status, message} included, the
\* random eligible flag left out.
C11_BatchEntryEqualsSingle ==
    NonEmptyList
        => \A i \in 1..Len(results) :
               \E rnd \in BOOLEAN, now \in NowValues :
                   Content(results[i])
                       = Content(verifyInsuranceAnswer(i, BatchIds[i],
                                                       rnd, now))

====
